---- MODULE Spec2Model ----
(***************************************************************************)
(* A model of three pieces of the opencollective API server:               *)
(*   - sanitizeActivity, the projection of an activity for webhooks;       *)
(*   - the transactions and orders resolvers of the Account interface;     *)
(*   - the creation of a LegalDocument row.                                *)
(* JavaScript objects are functions from keys to values; a missing key is  *)
(* a key outside the function's domain; a primitive value v is the boxed   *)
(* value Scalar(v), so that an object and a primitive can be told apart.   *)
(***************************************************************************)
EXTENDS Integers, Sequences, FiniteSets, TLC

VARIABLES
  activity,        \* the argument of the last sanitizeActivity call
  cleanActivity,   \* what that call returned (NotCalled before it)
  Order,           \* the rows of models.Order
  Transaction,     \* the rows of models.Transaction
  Tier,            \* the rows of models.Tier
  call,            \* the last resolver call: its resolver, account and args
  outcome,         \* what that call returned or threw
  queries,         \* the store queries that call issued, in order
  Collective,      \* ids of the rows of models.Collective
  LegalDocument,   \* rows of models.LegalDocument
  created          \* the last LegalDocument.create call and its result

vars == <<activity, cleanActivity, Order, Transaction, Tier, call, outcome,
          queries, Collective, LegalDocument, created>>

sanitizeVars == <<activity, cleanActivity>>
accountVars  == <<Order, Transaction, Tier, call, outcome, queries>>
legalVars    == <<Collective, LegalDocument, created>>

NotCalled == [called |-> FALSE]

\* the parts of the state a specification leaves alone
IdleSanitize == activity = NotCalled /\ cleanActivity = NotCalled
IdleAccount ==
  /\ Order = {} /\ Transaction = {} /\ Tier = {}
  /\ call = NotCalled /\ outcome = NotCalled /\ queries = <<>>
IdleLegal == Collective = {} /\ LegalDocument = {} /\ created = NotCalled

(***************************************************************************)
(* Bounds of the model.                                                    *)
(***************************************************************************)
MaxPaths == 2      \* leaf paths in the data object of an input activity
MaxRows == 2       \* rows in the store, over Order, Transaction and Tier
MaxCollectives == 2 \* rows of models.Collective in the LegalDocument part
MaxDocuments == 2  \* rows of models.LegalDocument

(***************************************************************************)
(* JavaScript values.                                                      *)
(***************************************************************************)
Scalar(v) == [scalar |-> v]
Undefined == [undefined |-> TRUE]
EmptyObject == <<>>
IsObject(x) == "scalar" \notin DOMAIN x /\ x # Undefined

\* object[key], undefined when the key is missing
Get(object, key) ==
  IF IsObject(object) /\ key \in DOMAIN object THEN object[key] ELSE Undefined

(***************************************************************************)
(* lodash: hasIn and pick. A path is a sequence of keys ('a.b' is          *)
(* <<"a", "b">>); the paths used here have one or two keys.                *)
(***************************************************************************)
hasIn(object, path) ==
  /\ IsObject(object)
  /\ path[1] \in DOMAIN object
  /\ \/ Len(path) = 1
     \/ /\ IsObject(object[path[1]])
        /\ path[2] \in DOMAIN object[path[1]]

\* faulty variant: the whole object, whatever the paths
pickLeaky(object, paths) ==
  IF IsObject(object) THEN object ELSE EmptyObject

pick(object, paths) ==
  LET present == {p \in paths : hasIn(object, p)}
      heads == {p[1] : p \in present}
  IN [h \in heads |->
        IF <<h>> \in present
        THEN object[h]
        ELSE [k \in {p[2] : p \in {q \in present : q[1] = h}} |-> object[h][k]]]

(***************************************************************************)
(* constants.activities: the names are those the function uses; the values *)
(* are strings of another file, of which only their being distinct matters.*)
(***************************************************************************)
COLLECTIVE_TRANSACTION_CREATED == "collective.transaction.created"
COLLECTIVE_UPDATE_PUBLISHED == "collective.update.published"
COLLECTIVE_EXPENSE_CREATED == "collective.expense.created"

CommonFields == {<<"createdAt">>, <<"id">>, <<"type">>, <<"CollectiveId">>}

TransactionCreatedPaths ==
  {<<"fromCollective", "type">>, <<"fromCollective", "name">>,
   <<"fromCollective", "image">>, <<"fromCollective", "slug">>,
   <<"transaction", "amount">>, <<"transaction", "currency">>}

UpdatePublishedPaths ==
  {<<"update", "html">>, <<"update", "title">>, <<"update", "slug">>,
   <<"update", "tags">>, <<"update", "isPrivate">>}

ExpenseCreatedPaths ==
  {<<"fromCollective", "type">>, <<"fromCollective", "name">>,
   <<"fromCollective", "image">>, <<"fromCollective", "slug">>,
   <<"expense", "id">>, <<"expense", "description">>,
   <<"expense", "amount">>, <<"expense", "currency">>}

\* faulty variant: the data is passed on without a look at the type
sanitizedDataNoFilter(a, type) ==
  IF IsObject(Get(a, "data")) THEN Get(a, "data") ELSE EmptyObject

sanitizedData(a, type) ==
  IF type = Scalar(COLLECTIVE_TRANSACTION_CREATED)
  THEN pick(Get(a, "data"), TransactionCreatedPaths)
  ELSE IF type = Scalar(COLLECTIVE_UPDATE_PUBLISHED)
  THEN pick(Get(a, "data"), UpdatePublishedPaths)
  ELSE IF type = Scalar(COLLECTIVE_EXPENSE_CREATED)
  THEN pick(Get(a, "data"), ExpenseCreatedPaths)
  ELSE EmptyObject

\* obj with obj[key] = value assigned
Assign(object, key, value) ==
  [k \in DOMAIN object \cup {key} |-> IF k = key THEN value ELSE object[k]]

sanitizeActivity(a) ==
  LET picked == pick(a, CommonFields)
      type == Get(picked, "type")
  IN Assign(picked, "data", sanitizedData(a, type))

(***************************************************************************)
(* The input activities of the model.                                      *)
(***************************************************************************)
Values == {1, 2}
OtherType == "user.created"
ActivityTypes == {COLLECTIVE_TRANSACTION_CREATED, COLLECTIVE_UPDATE_PUBLISHED,
                  COLLECTIVE_EXPENSE_CREATED, OtherType}
TopLevelKeys == {"createdAt", "id", "CollectiveId", "UserId"}

\* paths the data of an activity may hold that no allowlist names
PrivatePaths == {<<"fromCollective", "email">>, <<"transaction", "id">>,
                 <<"user", "email">>}
DataPaths == TransactionCreatedPaths \cup UpdatePublishedPaths
               \cup ExpenseCreatedPaths \cup PrivatePaths
PrimitiveGroups == {"fromCollective", "user"}

\* the data object holding the leaves P, each with value v, and the primitive
\* v under each key of prim
DataOf(P, prim, v) ==
  [g \in {p[1] : p \in P} \cup prim |->
     IF g \in prim THEN Scalar(v)
     ELSE [k \in {p[2] : p \in {q \in P : q[1] = g}} |-> Scalar(v)]]

ActivityOf(top, type, data, v) ==
  LET base == [k \in top |-> Scalar(v)]
      typed == IF type = "" THEN base ELSE Assign(base, "type", Scalar(type))
  IN IF data = Undefined THEN typed ELSE Assign(typed, "data", data)

\* the activities of the model: any of the top-level keys, a type or none, and
\* a data object of at most MaxPaths leaves, or none
InitSanitize ==
  /\ \E top \in SUBSET TopLevelKeys, type \in ActivityTypes \cup {""}, v \in Values :
       \/ activity = ActivityOf(top, type, Undefined, v)
       \/ \E P \in {Q \in SUBSET DataPaths : Cardinality(Q) <= MaxPaths},
             prim \in {{}} \cup {{g} : g \in PrimitiveGroups}, v2 \in Values :
            activity = ActivityOf(top, type, DataOf(P, prim, v2), v)
  /\ cleanActivity = NotCalled
  /\ IdleAccount /\ IdleLegal

SanitizeActivity ==
  /\ cleanActivity = NotCalled
  /\ cleanActivity' = [called |-> TRUE, value |-> sanitizeActivity(activity)]
  /\ UNCHANGED <<activity, accountVars, legalVars>>

(***************************************************************************)
(* The store behind the Account resolvers. A table is a set of rows, a row *)
(* a record; the ids of a table of n rows are 1 .. n. NULL is 0.           *)
(***************************************************************************)
Accounts == {1, 2}
OrderStatus == {"ACTIVE", "PAID"}
TransactionType == {"DEBIT", "CREDIT"}
CreatedAts == {1, 2}
TierSlugs == {"gold", "Gold"}
NULL == 0

OrderFields(nTiers) ==
  [CollectiveId : Accounts, FromCollectiveId : Accounts, status : OrderStatus,
   TierId : {NULL} \cup (1 .. nTiers)]
TransactionFields ==
  [CollectiveId : Accounts, FromCollectiveId : Accounts, type : TransactionType,
   createdAt : CreatedAts]
TierFields == [CollectiveId : Accounts, slug : TierSlugs]

\* the tables of n rows with ids 1 .. n. The TierId of an order is NULL or the
\* id of a tier; orders are created one after the other, transactions at any of
\* the times CreatedAts, two of them possibly at the same time
Tables(n, Fields) ==
  {{Assign(f[i], "id", i) : i \in 1 .. n} : f \in [1 .. n -> Fields]}

InitStore ==
  \E nOrders \in 0 .. MaxRows, nTransactions \in 0 .. MaxRows, nTiers \in 0 .. MaxRows :
    /\ nOrders + nTransactions + nTiers <= MaxRows
    /\ Tier \in Tables(nTiers, TierFields)
    /\ Order \in {{Assign(row, "createdAt", row.id) : row \in table} :
                   table \in Tables(nOrders, OrderFields(nTiers))}
    /\ Transaction \in Tables(nTransactions, TransactionFields)

(***************************************************************************)
(* Sequelize: where clauses, findOne and findAndCountAll. The keys of a    *)
(* where object are conjoined; Op.or holds alternatives; a column maps to  *)
(* the value it must equal, or to Op.in and a list.                        *)
(***************************************************************************)
Eq(v) == [eq |-> v]
In(list) == [in |-> list]
Range(s) == {s[i] : i \in DOMAIN s}

Holds(row, column, clause) ==
  IF "in" \in DOMAIN clause
  THEN row[column] \in Range(clause.in)
  ELSE row[column] = clause.eq

Matches(row, where) ==
  \A k \in DOMAIN where :
    IF k = "Op_or" THEN \E c \in DOMAIN where[k] : Holds(row, c, where[k][c])
    ELSE Holds(row, k, where[k])

\* findOne: a matching row, or null when there is none
NullRow == [null |-> TRUE]

findOne(table, where) ==
  IF \E row \in table : Matches(row, where)
  THEN {row \in table : Matches(row, where)}
  ELSE {NullRow}

InOrder(x, y, direction) == IF direction = "ASC" THEN x <= y ELSE x >= y

\* the sequences the store may return for ORDER BY field direction: rows that
\* tie on the field come in any order
Sorted(rows, field, direction) ==
  LET n == Cardinality(rows)
  IN {s \in [1 .. n -> rows] :
        /\ \A i, j \in 1 .. n : i # j => s[i] # s[j]
        /\ \A i, j \in 1 .. n : i < j => InOrder(s[i][field], s[j][field], direction)}

Min(a, b) == IF a <= b THEN a ELSE b

\* faulty variant: the offset is not passed on to the query
LimitOffsetNoOffset(s, limit, offset) == SubSeq(s, 1, Min(Len(s), limit))

LimitOffset(s, limit, offset) == SubSeq(s, offset + 1, Min(Len(s), offset + limit))

findAndCountAll(table, options) ==
  LET matching == {row \in table : Matches(row, options.where)}
  IN {[count |-> Cardinality(matching),
       rows |-> LimitOffset(s, options.limit, options.offset)] :
        s \in Sorted(matching, options.order[1], options.order[2])}

(***************************************************************************)
(* Errors and results of a resolver. The messages are written here without *)
(* the backquotes of the source.                                           *)
(***************************************************************************)
NotFound(message) == [name |-> "NotFound", message |-> message]
Throw(error) == [kind |-> "throw", error |-> error]
Return(value) == [kind |-> "return", value |-> value]

\* { limit: args.limit, offset: args.offset, ...result }
Page(args, result) ==
  LET first == [limit |-> args.limit, offset |-> args.offset]
  IN [k \in DOMAIN first \cup DOMAIN result |->
        IF k \in DOMAIN result THEN result[k] ELSE first[k]]

QueryOptions(where, args) ==
  [where |-> where, limit |-> args.limit, offset |-> args.offset,
   order |-> <<args.orderBy.field, args.orderBy.direction>>]

\* JavaScript truthiness of an optional string argument
Truthy(args, key) == key \in DOMAIN args /\ args[key] # ""

(***************************************************************************)
(* accountTransactions.resolve                                             *)
(***************************************************************************)
\* faulty variant: no condition on CollectiveId
transactionsWhereAnyOwner(collective, args) ==
  IF Truthy(args, "type") THEN [type |-> Eq(args.type)] ELSE EmptyObject

transactionsWhere(collective, args) ==
  LET where == [CollectiveId |-> Eq(collective.id)]
  IN IF Truthy(args, "type") THEN Assign(where, "type", Eq(args.type)) ELSE where

(***************************************************************************)
(* accountOrders.resolve                                                   *)
(***************************************************************************)
\* the branch on sent and received: the where object, or the error thrown
\* faulty variant: the two columns are taken one for the other
sentReceivedSwapped(collective, args) ==
  IF args.sent /\ args.received
  THEN Return([Op_or |-> [CollectiveId |-> Eq(collective.id),
                          FromCollectiveId |-> Eq(collective.id)]])
  ELSE IF args.sent THEN Return([CollectiveId |-> Eq(collective.id)])
  ELSE IF args.received THEN Return([FromCollectiveId |-> Eq(collective.id)])
  ELSE Throw(NotFound("At least one of sent or received needs to be true."))

\* faulty variant: no error when neither is set
sentReceivedNoCheck(collective, args) ==
  IF args.sent /\ args.received
  THEN Return([Op_or |-> [CollectiveId |-> Eq(collective.id),
                          FromCollectiveId |-> Eq(collective.id)]])
  ELSE IF args.sent THEN Return([FromCollectiveId |-> Eq(collective.id)])
  ELSE IF args.received THEN Return([CollectiveId |-> Eq(collective.id)])
  ELSE Return(EmptyObject)

sentReceived(collective, args) ==
  IF args.sent /\ args.received
  THEN Return([Op_or |-> [CollectiveId |-> Eq(collective.id),
                          FromCollectiveId |-> Eq(collective.id)]])
  ELSE IF args.sent THEN Return([FromCollectiveId |-> Eq(collective.id)])
  ELSE IF args.received THEN Return([CollectiveId |-> Eq(collective.id)])
  ELSE Throw(NotFound("At least one of sent or received needs to be true."))

\* if (args.status && args.status.length > 0)
\* faulty variant: the status joins the alternatives of Op.or
withStatusInsideOr(where, args) ==
  IF "status" \in DOMAIN args /\ Len(args.status) > 0
  THEN IF "Op_or" \in DOMAIN where
       THEN [Op_or |-> Assign(where.Op_or, "status", In(args.status))]
       ELSE Assign(where, "status", In(args.status))
  ELSE where

withStatus(where, args) ==
  IF "status" \in DOMAIN args /\ Len(args.status) > 0
  THEN Assign(where, "status", In(args.status))
  ELSE where

toLowerCase(s) ==
  CASE s = "Gold" -> "gold"
    [] s = "GOLD" -> "gold"
    [] OTHER -> s

\* faulty variant: the tier is looked up by its slug alone
tierWhereAnyCollective(collective, args) ==
  [slug |-> Eq(toLowerCase(args.tierSlug))]

tierWhere(collective, args) ==
  [CollectiveId |-> Eq(collective.id), slug |-> Eq(toLowerCase(args.tierSlug))]

\* if (args.tierSlug) { ... }: the queries issued, and the id of the tier found
\* (NULL without a tierSlug) or the error thrown
\* faulty variant: an empty tierSlug is looked up too
resolveTierWhenDefined(collective, args) ==
  IF "tierSlug" \in DOMAIN args
  THEN {[queries |-> <<"Tier.findOne">>,
         result |-> IF tier = NullRow THEN Throw(NotFound("TierSlug Not Found"))
                    ELSE Return(tier.id)] :
          tier \in findOne(Tier, tierWhere(collective, args))}
  ELSE {[queries |-> <<>>, result |-> Return(NULL)]}

resolveTier(collective, args) ==
  IF Truthy(args, "tierSlug")
  THEN {[queries |-> <<"Tier.findOne">>,
         result |-> IF tier = NullRow THEN Throw(NotFound("TierSlug Not Found"))
                    ELSE Return(tier.id)] :
          tier \in findOne(Tier, tierWhere(collective, args))}
  ELSE {[queries |-> <<>>, result |-> Return(NULL)]}

\* where.TierId = tier.id
withTier(where, tierId) ==
  IF tierId = NULL THEN where ELSE Assign(where, "TierId", Eq(tierId))

(***************************************************************************)
(* The calls of the model.                                                 *)
(***************************************************************************)
DefaultLimit == 100
Paginations ==
  {[limit |-> DefaultLimit, offset |-> 0, orderBy |-> [field |-> "createdAt", direction |-> "DESC"]],
   [limit |-> 1, offset |-> 0, orderBy |-> [field |-> "createdAt", direction |-> "ASC"]],
   [limit |-> 1, offset |-> 1, orderBy |-> [field |-> "createdAt", direction |-> "DESC"]],
   [limit |-> DefaultLimit, offset |-> 1, orderBy |-> [field |-> "createdAt", direction |-> "ASC"]]}

\* a record extended with an optional argument; opt is {} or a singleton
WithOptional(args, key, opt) ==
  IF opt = {} THEN args ELSE Assign(args, key, CHOOSE v \in opt : TRUE)

TransactionsArgs ==
  {WithOptional(p, "type", type) :
     p \in Paginations, type \in {{}} \cup {{t} : t \in TransactionType}}

StatusArgs == {<<>>, <<"ACTIVE">>, <<"PAID", "ACTIVE">>}
TierSlugArgs == {"", "Gold", "gold"}

OrdersArgs ==
  {WithOptional(WithOptional(
       [k \in DOMAIN p \cup {"sent", "received"} |->
          IF k = "sent" THEN sent ELSE IF k = "received" THEN received ELSE p[k]],
       "status", status), "tierSlug", tierSlug) :
     p \in Paginations, sent \in BOOLEAN, received \in BOOLEAN,
     status \in {{}} \cup {{x} : x \in StatusArgs},
     tierSlug \in {{}} \cup {{x} : x \in TierSlugArgs}}

InitAccount ==
  /\ InitStore
  /\ call = NotCalled
  /\ outcome = NotCalled
  /\ queries = <<>>
  /\ IdleSanitize /\ IdleLegal

AccountTransactions ==
  /\ call = NotCalled
  /\ \E id \in Accounts, args \in TransactionsArgs :
       LET collective == [id |-> id]
           where == transactionsWhere(collective, args)
       IN \E result \in findAndCountAll(Transaction, QueryOptions(where, args)) :
            /\ call' = [called |-> TRUE, resolver |-> "transactions",
                        collective |-> collective, args |-> args]
            /\ queries' = <<"Transaction.findAndCountAll">>
            /\ outcome' = Return(Page(args, result))
  /\ UNCHANGED <<Order, Transaction, Tier, sanitizeVars, legalVars>>

AccountOrders ==
  /\ call = NotCalled
  /\ \E id \in Accounts, args \in OrdersArgs :
       LET collective == [id |-> id]
           first == sentReceived(collective, args)
       IN /\ call' = [called |-> TRUE, resolver |-> "orders",
                      collective |-> collective, args |-> args]
          /\ IF first.kind = "throw"
             THEN /\ outcome' = first
                  /\ queries' = <<>>
             ELSE \E tier \in resolveTier(collective, args) :
                    IF tier.result.kind = "throw"
                    THEN /\ outcome' = tier.result
                         /\ queries' = tier.queries
                    ELSE LET where == withTier(withStatus(first.value, args),
                                               tier.result.value)
                         IN \E result \in findAndCountAll(Order, QueryOptions(where, args)) :
                              /\ outcome' = Return(Page(args, result))
                              /\ queries' = tier.queries \o <<"Order.findAndCountAll">>
  /\ UNCHANGED <<Order, Transaction, Tier, sanitizeVars, legalVars>>

\* the response is delivered; the next request starts from the same store
Respond ==
  /\ call # NotCalled
  /\ call' = NotCalled
  /\ outcome' = NotCalled
  /\ queries' = <<>>
  /\ UNCHANGED <<Order, Transaction, Tier, sanitizeVars, legalVars>>

(***************************************************************************)
(* LegalDocument.create. The model of the table is not part of the sources *)
(* at hand: its test is, and the rest follows the documented contract. A   *)
(* document needs a HostCollectiveId and a CollectiveId, each the id of a  *)
(* row of Collective.                                                      *)
(***************************************************************************)
Years == {"2019"}
ValidationError == [name |-> "SequelizeValidationError"]

\* the ids a caller may pass: those of the rows, and one of no row
CollectiveRefs == 1 .. (MaxCollectives + 1)

LegalDocumentData ==
  {WithOptional(WithOptional([year |-> year], "HostCollectiveId", host),
                "CollectiveId", collective) :
     year \in Years,
     host \in {{}} \cup {{x} : x \in CollectiveRefs},
     collective \in {{}} \cup {{x} : x \in CollectiveRefs}}

\* faulty variant: the CollectiveId is not validated
validHostOnly(doc) ==
  /\ "HostCollectiveId" \in DOMAIN doc
  /\ doc.HostCollectiveId \in Collective

valid(doc) ==
  /\ "HostCollectiveId" \in DOMAIN doc
  /\ "CollectiveId" \in DOMAIN doc
  /\ doc.HostCollectiveId \in Collective
  /\ doc.CollectiveId \in Collective

InitLegal ==
  /\ Collective = {}
  /\ LegalDocument = {}
  /\ created = NotCalled
  /\ IdleSanitize /\ IdleAccount

\* Collective.create, User.createUserWithCollective
CreateCollective ==
  /\ Cardinality(Collective) < MaxCollectives
  /\ Collective' = Collective \cup {Cardinality(Collective) + 1}
  /\ UNCHANGED <<LegalDocument, created, sanitizeVars, accountVars>>

CreateLegalDocument ==
  /\ Cardinality(LegalDocument) < MaxDocuments
  /\ \E doc \in LegalDocumentData :
       IF valid(doc)
       THEN LET row == Assign(doc, "id", Cardinality(LegalDocument) + 1)
            IN /\ LegalDocument' = LegalDocument \cup {row}
               /\ created' = [called |-> TRUE, doc |-> doc, before |-> LegalDocument,
                              collectives |-> Collective, result |-> Return(row)]
       ELSE /\ LegalDocument' = LegalDocument
            /\ created' = [called |-> TRUE, doc |-> doc, before |-> LegalDocument,
                           collectives |-> Collective,
                           result |-> Throw(ValidationError)]
  /\ UNCHANGED <<Collective, sanitizeVars, accountVars>>

NextSanitize == SanitizeActivity

SpecSanitize == InitSanitize /\ [][NextSanitize]_vars

NextAccount ==
  \/ AccountTransactions
  \/ AccountOrders
  \/ Respond

SpecAccount == InitAccount /\ [][NextAccount]_vars

NextLegal ==
  \/ CreateCollective
  \/ CreateLegalDocument

SpecLegal == InitLegal /\ [][NextLegal]_vars

(***************************************************************************)
(* Properties of sanitizeActivity, checked under SpecSanitize.             *)
(***************************************************************************)
\* the leaves 'g.k' of a two-level object
Leaves(object) ==
  IF IsObject(object)
  THEN UNION {{<<g, k>> : k \in DOMAIN object[g]} :
                g \in {h \in DOMAIN object : IsObject(object[h])}}
  ELSE {}

\* the allowlist of the type an activity carries
Allowlist(a) ==
  IF "type" \notin DOMAIN a THEN {}
  ELSE CASE a.type = Scalar(COLLECTIVE_TRANSACTION_CREATED) -> TransactionCreatedPaths
         [] a.type = Scalar(COLLECTIVE_UPDATE_PUBLISHED) -> UpdatePublishedPaths
         [] a.type = Scalar(COLLECTIVE_EXPENSE_CREATED) -> ExpenseCreatedPaths
         [] OTHER -> {}

\* C5: the data of the sanitized activity holds exactly the allowlisted paths of
\* its type that the input's data holds, with the input's values, and nothing
\* else; for any other type, and without a type, it is the empty object.
C5_DataIsAllowlistedProjection ==
  cleanActivity # NotCalled =>
    LET in == Get(activity, "data")
        out == cleanActivity.value.data
    IN /\ IsObject(out)
       /\ \A g \in DOMAIN out : IsObject(out[g]) /\ DOMAIN out[g] # {}
       /\ Leaves(out) = Leaves(in) \cap Allowlist(activity)
       /\ \A p \in Leaves(out) : out[p[1]][p[2]] = in[p[1]][p[2]]
       /\ Allowlist(activity) = {} => out = EmptyObject

\* a transaction-created activity whose data holds an allowlisted leaf, a leaf
\* outside the allowlist and a primitive where an object is expected
C5_Witness ==
  /\ cleanActivity # NotCalled
  /\ Get(activity, "type") = Scalar(COLLECTIVE_TRANSACTION_CREATED)
  /\ <<"transaction", "amount">> \in Leaves(Get(activity, "data"))
  /\ <<"transaction", "id">> \in Leaves(Get(activity, "data"))
  /\ Get(Get(activity, "data"), "fromCollective") = Scalar(2)
  /\ Leaves(cleanActivity.value.data) = {<<"transaction", "amount">>}

\* C6: the top-level keys of the sanitized activity are among createdAt, id,
\* type, CollectiveId and data; data is always there, and each of the other four
\* only if the input has it, with the input's value.
C6_TopLevelKeys ==
  cleanActivity # NotCalled =>
    LET out == cleanActivity.value
    IN /\ DOMAIN out \subseteq {"createdAt", "id", "type", "CollectiveId", "data"}
       /\ "data" \in DOMAIN out
       /\ \A k \in DOMAIN out \ {"data"} :
            k \in DOMAIN activity /\ out[k] = activity[k]

\* an activity with a field of the row that is not to be published, with some
\* of the common fields and without others
C6_Witness ==
  /\ cleanActivity # NotCalled
  /\ {"UserId", "id", "type"} \subseteq DOMAIN activity
  /\ "createdAt" \notin DOMAIN activity
  /\ DOMAIN cleanActivity.value = {"id", "type", "data"}

(***************************************************************************)
(* Properties of the Account resolvers, checked under SpecAccount.         *)
(***************************************************************************)
Called(resolver) == call # NotCalled /\ call.resolver = resolver
Returned == outcome.kind = "return"
ThrewNotFound == outcome.kind = "throw" /\ outcome.error.name = "NotFound"

\* the page returned selects exactly the rows M: it counts them, holds no other
\* row, and holds them all when the limit and offset leave none out
SelectsExactly(M) ==
  /\ outcome.value.count = Cardinality(M)
  /\ Range(outcome.value.rows) \subseteq M
  /\ (call.args.offset = 0 /\ call.args.limit >= Cardinality(M))
       => Range(outcome.value.rows) = M

\* the orders the account sent, received, or either
SentReceivedOrders ==
  LET A == call.collective.id
  IN IF call.args.sent /\ call.args.received
     THEN {o \in Order : o.CollectiveId = A \/ o.FromCollectiveId = A}
     ELSE IF call.args.sent THEN {o \in Order : o.FromCollectiveId = A}
     ELSE IF call.args.received THEN {o \in Order : o.CollectiveId = A}
     ELSE {}

\* C1: without status and tierSlug, an orders call with sent or received
\* succeeds and selects exactly the orders the account sent (FromCollectiveId),
\* received (CollectiveId), or either when both are asked for.
C1_OrdersBySentReceived ==
  (/\ Called("orders")
   /\ call.args.sent \/ call.args.received
   /\ "status" \notin DOMAIN call.args
   /\ "tierSlug" \notin DOMAIN call.args)
  => Returned /\ SelectsExactly(SentReceivedOrders)

\* sent only, in a store with an order the account sent to another account and
\* an order it received from another account
C1_Witness ==
  /\ Called("orders")
  /\ call.args.sent /\ ~call.args.received
  /\ "status" \notin DOMAIN call.args /\ "tierSlug" \notin DOMAIN call.args
  /\ \E o \in Order : o.FromCollectiveId = call.collective.id
                      /\ o.CollectiveId # call.collective.id
  /\ \E o \in Order : o.CollectiveId = call.collective.id
                      /\ o.FromCollectiveId # call.collective.id
  /\ Returned /\ outcome.value.count = 1 /\ Len(outcome.value.rows) = 1

\* C2: an orders call with neither sent nor received throws NotFound, whatever
\* the other arguments.
C2_NeitherSentNorReceived ==
  (Called("orders") /\ ~call.args.sent /\ ~call.args.received) => ThrewNotFound

\* neither sent nor received, with a status list and a tierSlug that resolves,
\* in a store with an order of the account
C2_Witness ==
  /\ Called("orders")
  /\ ~call.args.sent /\ ~call.args.received
  /\ "status" \in DOMAIN call.args /\ Len(call.args.status) > 0
  /\ Truthy(call.args, "tierSlug")
  /\ \E t \in Tier : t.CollectiveId = call.collective.id /\ t.slug = "gold"
  /\ \E o \in Order : o.CollectiveId = call.collective.id
  /\ ThrewNotFound

\* the tiers of the account whose slug is the lower-cased tierSlug
ResolvingTiers ==
  {t \in Tier : /\ t.CollectiveId = call.collective.id
                /\ t.slug = toLowerCase(call.args.tierSlug)}

\* C3: an orders call with a non-empty tierSlug and sent or received throws
\* NotFound when no tier of the account has the lower-cased slug, and does not
\* throw NotFound when one has.
C3_TierSlugScopedToAccount ==
  (/\ Called("orders")
   /\ call.args.sent \/ call.args.received
   /\ Truthy(call.args, "tierSlug"))
  => (ThrewNotFound <=> ResolvingTiers = {})

\* the slug is that of a tier of another account only
C3_Witness ==
  /\ Called("orders")
  /\ call.args.sent \/ call.args.received
  /\ Truthy(call.args, "tierSlug") /\ call.args.tierSlug = "Gold"
  /\ \E t \in Tier : t.slug = "gold" /\ t.CollectiveId # call.collective.id
  /\ ThrewNotFound

StatusOk(o) ==
  ("status" \in DOMAIN call.args /\ Len(call.args.status) > 0)
    => o.status \in Range(call.args.status)

\* the sets of rows a call may select: one set, or one for each tier the slug
\* resolves to
SelectedSets ==
  IF call.resolver = "transactions"
  THEN {{t \in Transaction :
           /\ t.CollectiveId = call.collective.id
           /\ "type" \in DOMAIN call.args => t.type = call.args.type}}
  ELSE IF Truthy(call.args, "tierSlug")
  THEN {{o \in SentReceivedOrders : StatusOk(o) /\ o.TierId = tier.id} :
          tier \in ResolvingTiers}
  ELSE {{o \in SentReceivedOrders : StatusOk(o)}}

Max(a, b) == IF a >= b THEN a ELSE b

\* rows is the page (limit, offset) of the rows M in the order asked for
RequestedPage(M, rows) ==
  LET n == Cardinality(M)
      args == call.args
  IN \E s \in [1 .. n -> M] :
       /\ \A i, j \in 1 .. n : i # j => s[i] # s[j]
       /\ \A i \in 1 .. n - 1 :
            IF args.orderBy.direction = "ASC"
            THEN s[i][args.orderBy.field] <= s[i + 1][args.orderBy.field]
            ELSE s[i][args.orderBy.field] >= s[i + 1][args.orderBy.field]
       /\ Len(rows) = Max(0, Min(args.limit, n - args.offset))
       /\ \A i \in 1 .. Len(rows) : rows[i] = s[args.offset + i]

\* a page object whose fields are limit, offset, and the two named
PageObject(countField, rowsField) ==
  (call # NotCalled /\ Returned) =>
    /\ DOMAIN outcome.value = {"limit", "offset", countField, rowsField}
    /\ outcome.value.limit = call.args.limit
    /\ outcome.value.offset = call.args.offset
    /\ \E M \in SelectedSets :
         /\ outcome.value[countField] = Cardinality(M)
         /\ RequestedPage(M, outcome.value[rowsField])

\* C4, as stated: every successful call of either resolver returns a page object
\* with the fields limit, offset, totalCount and items.
C4_Original == PageObject("totalCount", "items")

\* C4, amended: every successful call of either resolver returns an object with
\* the fields limit, offset, count and rows: limit and offset are the call's
\* arguments, count the number of all rows matching the filter, rows the
\* requested page of them.
C4_PageObject == PageObject("count", "rows")

\* the second page of one row, of two matching orders
C4_Witness ==
  /\ Called("orders") /\ Returned
  /\ call.args.limit = 1 /\ call.args.offset = 1
  /\ outcome.value.count = 2
  /\ Len(outcome.value.rows) = 1

\* C8: the transactions resolver selects exactly the transactions whose
\* CollectiveId is the account, of the type asked for when one is given.
C8_TransactionsOfOwner ==
  Called("transactions") =>
    /\ Returned
    /\ SelectsExactly({t \in Transaction :
                         /\ t.CollectiveId = call.collective.id
                         /\ "type" \in DOMAIN call.args => t.type = call.args.type})

\* a type is given; a transaction of another account has the account as its
\* FromCollectiveId, and one of the account's own is of another type
C8_Witness ==
  /\ Called("transactions") /\ Returned
  /\ "type" \in DOMAIN call.args
  /\ \E t \in Transaction : /\ t.FromCollectiveId = call.collective.id
                            /\ t.CollectiveId # call.collective.id
                            /\ t.type = call.args.type
  /\ \E t \in Transaction : /\ t.CollectiveId = call.collective.id
                            /\ t.type # call.args.type
  /\ outcome.value.count = 0

\* C9, as stated: every call of either resolver issues a single query.
C9_Original == call # NotCalled => Len(queries) = 1

\* C9, amended: a transactions call issues one query. An orders call issues
\* none when neither sent nor received is set; otherwise one query for the
\* orders, preceded by one for the tier when a non-empty tierSlug is passed, the
\* query for the orders being left out when no tier is found.
C9_Queries ==
  call # NotCalled =>
    queries =
      IF call.resolver = "transactions" THEN <<"Transaction.findAndCountAll">>
      ELSE IF ~call.args.sent /\ ~call.args.received THEN <<>>
      ELSE IF ~Truthy(call.args, "tierSlug") THEN <<"Order.findAndCountAll">>
      ELSE IF Returned THEN <<"Tier.findOne", "Order.findAndCountAll">>
      ELSE <<"Tier.findOne">>

\* an orders call whose tierSlug resolves
C9_Witness ==
  /\ Called("orders") /\ Returned
  /\ Truthy(call.args, "tierSlug")
  /\ Len(queries) = 2

\* C10: the status list and the tier only narrow the orders that sent and
\* received choose: a successful orders call selects exactly those of them whose
\* status is in a non-empty list and whose TierId is that of the resolved tier.
C10_FiltersNarrow ==
  (Called("orders") /\ Returned) =>
    /\ \E M \in SelectedSets : SelectsExactly(M)
    /\ Range(outcome.value.rows) \subseteq SentReceivedOrders

\* sent and received, a status list and a resolved tier; an order of another
\* account passes both filters, an order of the account passes neither
C10_Witness ==
  /\ Called("orders") /\ Returned
  /\ call.args.sent /\ call.args.received
  /\ "status" \in DOMAIN call.args /\ Len(call.args.status) > 0
  /\ Truthy(call.args, "tierSlug")
  /\ \E o \in Order : /\ o \notin SentReceivedOrders
                      /\ StatusOk(o)
                      /\ \E t \in ResolvingTiers : o.TierId = t.id
  /\ outcome.value.count = 0

(***************************************************************************)
(* Properties of LegalDocument.create, checked under SpecLegal.            *)
(***************************************************************************)
\* C7: a create with a HostCollectiveId and a CollectiveId that are ids of rows
\* of Collective succeeds and its record is in the table; a create that omits
\* either fails with a validation error and adds no record.
C7_LegalDocumentCreate ==
  created # NotCalled =>
    LET doc == created.doc
    IN /\ (/\ "HostCollectiveId" \in DOMAIN doc
           /\ "CollectiveId" \in DOMAIN doc
           /\ doc.HostCollectiveId \in created.collectives
           /\ doc.CollectiveId \in created.collectives)
          => /\ created.result.kind = "return"
             /\ created.result.value \in LegalDocument
             /\ \A k \in DOMAIN doc : created.result.value[k] = doc[k]
       /\ ("HostCollectiveId" \notin DOMAIN doc \/ "CollectiveId" \notin DOMAIN doc)
          => /\ created.result = Throw(ValidationError)
             /\ LegalDocument = created.before

\* the create of the test: a host and the collective of a user
C7_Witness ==
  /\ created # NotCalled
  /\ created.result.kind = "return"
  /\ created.doc.HostCollectiveId # created.doc.CollectiveId
  /\ created.doc.year = "2019"
  /\ created.result.value \in LegalDocument
====
